---- MODULE Spec2Model ----
(***************************************************************************)
(* Model of src/Assistent.py: the reminder store (the module-level list    *)
(* `reminders`, `reminder_lock`, the daemon thread `reminder_worker` and   *)
(* `set_reminder_in`), the fire-and-forget `speak`, `listen`, the command  *)
(* dispatcher `handle_command` and the session loop `main_loop`.           *)
(*                                                                         *)
(* Time is counted in seconds (datetime.now() read as an integer).  A      *)
(* reminder is the tuple (when, message) of the source; the model adds the *)
(* field `id`, the identity of the tuple object, which the program never   *)
(* reads and which only the properties use.                                *)
(***************************************************************************)
EXTENDS Integers, Sequences, FiniteSets, Bags, TLC

(***************************************************************************)
(* Bounds of the model.                                                    *)
(***************************************************************************)
\* Number of threads that call set_reminder_in concurrently.
NCallers == 2
\* Largest minute count a concurrent caller passes.
MaxMinutes == 1
\* The clock of the concurrent model is observed every ClockStep seconds ...
ClockStep == 30
\* ... MaxTicks times.
MaxTicks == 2
\* The sequential contract runs start at a clock value in 0..MaxStart ...
MaxStart == 2
\* ... pass a minute count in 1..MaxContractMinutes ...
MaxContractMinutes == 2
\* ... and poll at most MaxPolls times.
MaxPolls == 3
\* The session loop is followed for MaxIter iterations.
MaxIter == 2
\* get_top_news returns at most MaxHeadlines headlines.
MaxHeadlines == 1
\* Next to the worker thread the session loop is followed for MaxSystemIter
\* iterations.
MaxSystemIter == 1

(***************************************************************************)
(* Program constants.                                                      *)
(***************************************************************************)
\* timedelta(minutes=minutes): one minute is 60 seconds.
SecondsPerMinute == 60

(***************************************************************************)
(* Text.  A str is modelled as the sequence of its characters, each a      *)
(* one-character string, so that `in`, startswith, split, replace, strip   *)
(* and the regular expression of handle_command work on characters as in   *)
(* the source.                                                             *)
(***************************************************************************)
Sp == " "
Digits == {"0", "1", "2", "3", "4", "5", "6", "7", "8", "9"}

\* A word of lower-case letters and digits, written letter by letter.
W_remind == <<"r", "e", "m", "i", "n", "d">>
W_me == <<"m", "e">>
W_in == <<"i", "n">>
W_to == <<"t", "o">>
W_set == <<"s", "e", "t">>
W_reminder == <<"r", "e", "m", "i", "n", "d", "e", "r">>
W_minute == <<"m", "i", "n", "u", "t", "e">>
W_minutes == <<"m", "i", "n", "u", "t", "e", "s">>
W_hour == <<"h", "o", "u", "r">>
W_hours == <<"h", "o", "u", "r", "s">>
W_your == <<"y", "o", "u", "r">>
W_task == <<"t", "a", "s", "k">>
W_assistant == <<"a", "s", "s", "i", "s", "t", "a", "n", "t">>
W_hey == <<"h", "e", "y">>
W_ok == <<"o", "k">>
W_quit == <<"q", "u", "i", "t">>
W_exit == <<"e", "x", "i", "t">>
W_stop == <<"s", "t", "o", "p">>
W_weather == <<"w", "e", "a", "t", "h", "e", "r">>
W_news == <<"n", "e", "w", "s">>
W_headlines == <<"h", "e", "a", "d", "l", "i", "n", "e", "s">>
W_time == <<"t", "i", "m", "e">>
W_date == <<"d", "a", "t", "e">>
W_search == <<"s", "e", "a", "r", "c", "h">>
W_for == <<"f", "o", "r">>
W_google == <<"g", "o", "o", "g", "l", "e">>
W_hello == <<"h", "e", "l", "l", "o">>
W_hi == <<"h", "i">>
W_thank == <<"t", "h", "a", "n", "k">>
W_tea == <<"t", "e", "a">>
W_oven == <<"o", "v", "e", "n">>
W_ten == <<"t", "e", "n">>
W_0 == <<"0">>
W_2 == <<"2">>
W_10 == <<"1", "0">>
\* "Quit", as the recogniser returns it before .lower()
W_Quit == <<"Q", "u", "i", "t">>

\* sep.join(words)
RECURSIVE Join(_, _)
Join(words, sep) ==
    IF words = <<>> THEN <<>>
    ELSE IF Len(words) = 1 THEN words[1]
    ELSE words[1] \o sep \o Join(Tail(words), sep)

\* The words of a text with one space between them.
Sentence(words) == Join(words, <<Sp>>)

\* text[i:].startswith(p), positions counted from 1
MatchesAt(text, p, i) ==
    /\ i + Len(p) - 1 <= Len(text)
    /\ \A k \in 1..Len(p) : text[i + k - 1] = p[k]

\* text.startswith(p)
StartsWith(text, p) == MatchesAt(text, p, 1)

\* p in text
Contains(text, p) == \E i \in 1..(Len(text) + 1) : MatchesAt(text, p, i)

\* any(p in text for p in ps)
ContainsAny(text, ps) == \E p \in ps : Contains(text, p)

\* text[i:], positions counted from 1
From(text, i) == SubSeq(text, i, Len(text))

\* text.lower(), for the letters the model's texts use
LowerChar(ch) == IF ch = "Q" THEN "q" ELSE ch
Lower(text) == [i \in 1..Len(text) |-> LowerChar(text[i])]

\* text.strip()
RECURSIVE LStrip(_)
LStrip(text) ==
    IF text # <<>> /\ Head(text) = Sp THEN LStrip(Tail(text)) ELSE text
RECURSIVE RStrip(_)
RStrip(text) ==
    IF text # <<>> /\ text[Len(text)] = Sp
    THEN RStrip(SubSeq(text, 1, Len(text) - 1)) ELSE text
Strip(text) == RStrip(LStrip(text))

\* text.replace(old, "") for a non-empty old: every occurrence, found from
\* left to right without overlap, is removed.
RECURSIVE Remove(_, _)
Remove(text, old) ==
    IF text = <<>> THEN <<>>
    ELSE IF MatchesAt(text, old, 1) THEN Remove(From(text, Len(old) + 1), old)
    ELSE <<Head(text)>> \o Remove(Tail(text), old)

\* text.split(): the maximal runs of non-space characters
RECURSIVE SplitFrom(_, _)
SplitFrom(text, word) ==
    IF text = <<>> THEN (IF word = <<>> THEN <<>> ELSE <<word>>)
    ELSE IF Head(text) = Sp
         THEN (IF word = <<>> THEN <<>> ELSE <<word>>) \o SplitFrom(Tail(text), <<>>)
         ELSE SplitFrom(Tail(text), Append(word, Head(text)))
Split(text) == SplitFrom(text, <<>>)

\* ''.join(filter(str.isdigit, reply))
DigitsOf(text) == SelectSeq(text, LAMBDA ch : ch \in Digits)

\* int(s) for a string of digits; int('') raises ValueError
DigitValue(ch) ==
    CASE ch = "0" -> 0 [] ch = "1" -> 1 [] ch = "2" -> 2 [] ch = "3" -> 3
      [] ch = "4" -> 4 [] ch = "5" -> 5 [] ch = "6" -> 6 [] ch = "7" -> 7
      [] ch = "8" -> 8 [] ch = "9" -> 9
RECURSIVE IntOf(_)
IntOf(ds) ==
    IF ds = <<>> THEN 0
    ELSE 10 * IntOf(SubSeq(ds, 1, Len(ds) - 1)) + DigitValue(ds[Len(ds)])
IntRaises(s) == s = <<>> \/ \E i \in 1..Len(s) : s[i] \notin Digits

\* re.search(r"remind me in (\d+) (minute|minutes|hour|hours) (?:to )?(.*)",
\* text).  A match that starts at position i reads "remind me in ", a run of
\* digits (group 1) that ends at a space, one of the four units (group 2)
\* followed by a space, "to " if it is there, and the rest (group 3).
RemindMeIn == Sentence(<<W_remind, W_me, W_in>>)
Units == <<W_minute, W_minutes, W_hour, W_hours>>
\* the number of digits at the start of text
RECURSIVE DigitRun(_)
DigitRun(text) ==
    IF text # <<>> /\ Head(text) \in Digits THEN 1 + DigitRun(Tail(text)) ELSE 0
\* The match that starts at position i, as <<group 1, group 2, group 3>>, or
\* <<>> when there is none.
ReminderMatchAt(text, i) ==
    LET lit == RemindMeIn \o <<Sp>> IN
    IF ~MatchesAt(text, lit, i) THEN <<>>
    ELSE LET afterLit == From(text, i + Len(lit))
             n == DigitRun(afterLit)
             afterNum == From(afterLit, n + 1)
             units == {u \in 1..Len(Units) : MatchesAt(afterNum, <<Sp>> \o Units[u] \o <<Sp>>, 1)}
         IN IF n = 0 \/ units = {} THEN <<>>
            ELSE LET u == CHOOSE u \in units : \A v \in units : u <= v
                     rest == From(afterNum, Len(Units[u]) + 3)
                     toSp == W_to \o <<Sp>>
                 IN <<SubSeq(afterLit, 1, n), Units[u],
                      IF MatchesAt(rest, toSp, 1) THEN From(rest, Len(toSp) + 1) ELSE rest>>
\* The leftmost match, or <<>>.
ReminderMatch(text) ==
    LET starts == {i \in 1..Len(text) : ReminderMatchAt(text, i) # <<>>}
    IN IF starts = {} THEN <<>>
       ELSE ReminderMatchAt(text, CHOOSE i \in starts : \A j \in starts : i <= j)

MaxTime == MaxTicks * ClockStep
\* The threads that call set_reminder_in: thread 0 is the main thread, inside
\* handle_command; the others are the callers of the concurrent runs.
MainCaller == 0
Callers == 1..NCallers
Messages == {W_oven, W_tea}
\* The message caller c passes: callers pass different messages in turn.
MessageOf(c) == IF c % 2 = 1 THEN W_oven ELSE W_tea
\* A thread is named by a tuple; no thread is the empty tuple.
NoThread == <<>>
WorkerThread == <<"worker">>
CallerThread(c) == <<"caller", c>>


VARIABLES
    clock,          \* datetime.now(), in seconds
    reminders,      \* the list `reminders`
    reminder_lock,  \* holder of `reminder_lock`, or NoThread
    wpc,            \* reminder_worker: the statement it is at
    wnow,           \* reminder_worker: local `now`
    due,            \* reminder_worker: local `due`
    wi,             \* reminder_worker: position of the for loop in `due`
    cpc,            \* set_reminder_in, per caller: the statement it is at
    cargs,          \* set_reminder_in, per caller: (minutes, message)
    cwhen,          \* set_reminder_in, per caller: local `when`
    utterances,     \* the texts speak() was called with, each with its count
    inserted,       \* history: every tuple appended to `reminders`, by id
    fireEvents,     \* history: the "Reminder: ..." speak calls of the worker
    atLock,         \* history: `reminders` as it was when the worker locked
    tpc,            \* sequential contract run: where the run is
    tsched,         \* sequential contract run: the reminder schedule() made
    tres,           \* sequential contract run: what each poll returned
    mic,            \* whether sr.Microphone() could be made (`mic` is not None)
    mpc,            \* main thread: the statement it is at
    htext,          \* handle_command: parameter `text`, after line 157
    hloc,           \* handle_command: its locals (mins, city, headlines left)
    iter,           \* main_loop: iterations of `while True` begun
    fetches,        \* history: the calls of get_weather and get_top_news
    browser,        \* history: the queries handed to webbrowser.open
    log,            \* history: what the main thread did in this iteration
    mark,           \* history: the side effects counted when handle_command was called
    budget          \* the iterations of `while True` the specification follows

storeVars == <<clock, reminders, reminder_lock>>
workerVars == <<wpc, wnow, due, wi>>
callerVars == <<cpc, cargs, cwhen>>
histVars == <<utterances, inserted, fireEvents, atLock>>
testVars == <<tpc, tsched, tres>>
sessVars == <<mic, mpc, htext, hloc, iter, fetches, browser, log, mark, budget>>
vars == <<storeVars, workerVars, callerVars, histVars, testVars, sessVars>>

(***************************************************************************)
(* Pure helpers.                                                           *)
(***************************************************************************)
\* datetime.now() + timedelta(minutes=minutes)
FireTime(now, minutes) == now + minutes * SecondsPerMinute

\* Variant of DueOf: the comparison is strict.
DueOfStrict(rs, now) == SelectSeq(rs, LAMBDA r : r.when < now)

\* [r for r in reminders if r[0] <= now]
DueOf(rs, now) == SelectSeq(rs, LAMBDA r : r.when <= now)

\* Variant of KeepOf: a reminder due exactly now is kept as well.
KeepOfInclusive(rs, now) == SelectSeq(rs, LAMBDA r : r.when >= now)

\* [r for r in reminders if r[0] > now]
KeepOf(rs, now) == SelectSeq(rs, LAMBDA r : r.when > now)

\* Variant of Insert: the collection is keyed by fire time, so that a
\* reminder whose fire time is already present is not added.
InsertKeyed(rs, r) ==
    IF \E i \in 1..Len(rs) : rs[i].when = r.when THEN rs ELSE Append(rs, r)

\* reminders.append((when, message))
Insert(rs, r) == Append(rs, r)

\* str(n) for an int n >= 0, as in an f-string
DigitChar(d) == <<"0", "1", "2", "3", "4", "5", "6", "7", "8", "9">>[d + 1]
RECURSIVE Str(_)
Str(n) == IF n < 10 THEN <<DigitChar(n)>> ELSE Str(n \div 10) \o <<DigitChar(n % 10)>>

\* A text that is spoken: the literal or f-string of the source, and the
\* values that fill its braces, in order.
Say(template, args) == [say |-> template, args |-> args]

\* f"Reminder: {msg}"
ReminderText(msg) == Say("Reminder: {msg}", <<msg>>)

\* f"Okay. I will remind you in {minutes} minutes about {message}."
ConfirmText(minutes, message) ==
    Say("Okay. I will remind you in {minutes} minutes about {message}.",
        <<Str(minutes), message>>)

\* The effect of speak(text) on what has been said.
Spoken(said, text) == said (+) SetToBag({text})

\* speak(text): a daemon thread is started that runs engine.say(text) and
\* engine.runAndWait().  The engine may fail inside that thread; the
\* exception ends the thread and never reaches the caller of speak.
EngineOutcomes == {"played", "failed"}

\* Variant of AfterSpeak: the failure of the engine reaches the caller of
\* speak(), whose thread then ends with the exception.
AfterSpeakRaising(outcome, next) == IF outcome = "failed" THEN "dead" ELSE next

\* What the caller of speak() does after speak() returned: it goes on to
\* its next statement whatever became of the utterance.
AfterSpeak(outcome, next) == next

\* Variant of CanAcquire: the lock excludes nobody.
CanAcquireAlways(lock) == TRUE

\* `with reminder_lock:` can be entered only while no thread holds the lock.
CanAcquire(lock) == lock = NoThread

\* Variant of Release: the with block is left with the lock still held.
ReleaseNever(holder) == holder

\* The end of a `with reminder_lock:` block: the holder gives the lock up.
Release(holder) == NoThread

\* The side effects so far: insertions, fetches and browser launches.
Effects == [inserted |-> Len(inserted), fetches |-> Len(fetches), browser |-> Len(browser)]

\* The identity of the next tuple created.
NextId == Len(inserted) + 1

Ids(rs) == {rs[i].id : i \in 1..Len(rs)}

(***************************************************************************)
(* The clock.                                                              *)
(***************************************************************************)
\* datetime.now() is later each time the clock is looked at.
Tick ==
    /\ clock + ClockStep <= MaxTime
    /\ clock' = clock + ClockStep
    /\ UNCHANGED <<reminders, reminder_lock, workerVars, callerVars, histVars,
                   testVars,
                   sessVars>>

(***************************************************************************)
(* reminder_worker, lines 99-108.                                          *)
(***************************************************************************)
\* line 101: now = datetime.now()
W_now ==
    /\ wpc = "now"
    /\ wnow' = clock
    /\ wpc' = "lock"
    /\ UNCHANGED <<storeVars, due, wi, callerVars, histVars, testVars,
                   sessVars>>

\* line 102: with reminder_lock: (enter)
W_lock ==
    /\ wpc = "lock"
    /\ CanAcquire(reminder_lock)
    /\ reminder_lock' = WorkerThread
    /\ atLock' = reminders
    /\ wpc' = "due"
    /\ UNCHANGED <<clock, reminders, wnow, due, wi, callerVars,
                   utterances, inserted, fireEvents, testVars,
                   sessVars>>

\* line 103: due = [r for r in reminders if r[0] <= now]
W_due ==
    /\ wpc = "due"
    /\ due' = DueOf(reminders, wnow)
    /\ wpc' = "remove"
    /\ UNCHANGED <<storeVars, wnow, wi, callerVars, histVars, testVars,
                   sessVars>>

\* line 104: reminders[:] = [r for r in reminders if r[0] > now], and the
\* end of the with block, which releases the lock.
W_remove ==
    /\ wpc = "remove"
    /\ reminders' = KeepOf(reminders, wnow)
    /\ reminder_lock' = Release(reminder_lock)
    /\ wi' = 1
    /\ wpc' = "for"
    /\ UNCHANGED <<clock, wnow, due, callerVars, histVars, testVars,
                   sessVars>>

\* lines 105-107: one iteration of `for when, msg in due:`
\*     speak(f"Reminder: {msg}"); print(...)
W_speak ==
    /\ wpc = "for"
    /\ wi <= Len(due)
    /\ \E o \in EngineOutcomes :
        /\ utterances' = Spoken(utterances, ReminderText(due[wi].msg))
        /\ fireEvents' = Append(fireEvents,
                                [id |-> due[wi].id, when |-> due[wi].when,
                                 msg |-> due[wi].msg, now |-> wnow, outcome |-> o])
        /\ wpc' = AfterSpeak(o, "for")
    /\ wi' = wi + 1
    /\ UNCHANGED <<storeVars, wnow, due, callerVars, inserted, atLock, testVars,
                   sessVars>>

\* line 105, the loop is exhausted; line 108: time.sleep(1), which returns
\* after some time; the clock advances on its own.
W_sleep ==
    /\ wpc = "for"
    /\ wi > Len(due)
    /\ wpc' = "now"
    /\ UNCHANGED <<storeVars, wnow, due, wi, callerVars, histVars, testVars,
                   sessVars>>

Worker == W_now \/ W_lock \/ W_due \/ W_remove \/ W_speak \/ W_sleep

(***************************************************************************)
(* set_reminder_in, lines 112-117, run by thread c.                        *)
(***************************************************************************)
\* the call, and line 113: when = datetime.now() + timedelta(minutes=minutes)
S_when(c, minutes, message) ==
    /\ cpc[c] = "idle"
    /\ cargs' = [cargs EXCEPT ![c] = <<minutes, message>>]
    /\ cwhen' = [cwhen EXCEPT ![c] = FireTime(clock, minutes)]
    /\ cpc' = [cpc EXCEPT ![c] = "lock"]
    /\ UNCHANGED <<storeVars, workerVars, histVars, testVars>>

\* line 114: with reminder_lock: (enter)
S_lock(c) ==
    /\ cpc[c] = "lock"
    /\ CanAcquire(reminder_lock)
    /\ reminder_lock' = CallerThread(c)
    /\ cpc' = [cpc EXCEPT ![c] = "append"]
    /\ UNCHANGED <<clock, reminders, workerVars, cargs, cwhen, histVars, testVars,
                   sessVars>>

\* line 115: reminders.append((when, message)), and the end of the with
\* block, which releases the lock.
S_append(c) ==
    /\ cpc[c] = "append"
    /\ LET r == [when |-> cwhen[c], msg |-> cargs[c][2], id |-> NextId]
       IN /\ reminders' = Insert(reminders, r)
          /\ inserted' = Append(inserted, r)
    /\ reminder_lock' = Release(reminder_lock)
    /\ cpc' = [cpc EXCEPT ![c] = "speak"]
    /\ UNCHANGED <<clock, workerVars, cargs, cwhen, utterances, fireEvents, atLock,
                   testVars,
                   sessVars>>

\* lines 116-117: speak(f"Okay. ..."); print(...); return
S_speak(c) ==
    /\ cpc[c] = "speak"
    /\ \E o \in EngineOutcomes :
        /\ utterances' = Spoken(utterances, ConfirmText(cargs[c][1], cargs[c][2]))
        /\ cpc' = [cpc EXCEPT ![c] = AfterSpeak(o, "returned")]
    /\ UNCHANGED <<storeVars, workerVars, cargs, cwhen, inserted, fireEvents, atLock,
                   testVars,
                   sessVars>>

Caller(c) ==
    \/ /\ \E m \in 1..MaxMinutes :
            /\ FireTime(clock, m) <= MaxTime + ClockStep
            /\ S_when(c, m, MessageOf(c))
       /\ UNCHANGED sessVars
    \/ S_lock(c)
    \/ S_append(c)
    \/ S_speak(c)

(***************************************************************************)
(* The reminder store under concurrent callers.                            *)
(***************************************************************************)
\* The state after the module has been loaded: lines 96-97 and 110, with
\* the clock and the list left to the specification.
Loaded ==
    /\ reminder_lock = NoThread
    /\ wpc = "now"
    /\ wnow = 0
    /\ due = <<>>
    /\ wi = 1
    /\ cpc = [c \in {MainCaller} \cup Callers |-> "idle"]
    /\ cargs = [c \in {MainCaller} \cup Callers |-> <<0, <<>>>>]
    /\ cwhen = [c \in {MainCaller} \cup Callers |-> 0]
    /\ utterances = EmptyBag
    /\ inserted = <<>>
    /\ fireEvents = <<>>
    /\ atLock = <<>>
    /\ tpc = "start"
    /\ tsched = <<>>
    /\ tres = <<>>
    /\ mpc = "start"
    /\ htext = <<>>
    /\ hloc = <<>>
    /\ iter = 0
    /\ fetches = <<>>
    /\ browser = <<>>
    /\ log = <<>>
    /\ mark = Effects

Init ==
    /\ clock = 0
    /\ reminders = <<>>
    /\ mic = TRUE
    /\ budget = MaxIter
    /\ Loaded

Next ==
    \/ Tick
    \/ Worker
    \/ \E c \in Callers : Caller(c)

Spec == Init /\ [][Next]_vars

\* Threads that run are scheduled: the worker, the clock, and every caller
\* that is inside set_reminder_in.  Nothing obliges a caller to call.
CallerRun(c) == S_lock(c) \/ S_append(c) \/ S_speak(c)

FairSpec ==
    /\ Spec
    /\ WF_vars(Tick)
    /\ WF_vars(Worker)
    /\ \A c \in Callers : WF_vars(CallerRun(c))

(***************************************************************************)
(* The store's contract, run sequentially: schedule(minutes, message) is   *)
(* lines 113-115 of set_reminder_in, pollAndRemoveDue(now) is lines        *)
(* 101-104 of reminder_worker, each run without interruption.              *)
(***************************************************************************)
\* schedule(minutes, message) at the current clock value
T_schedule(minutes, message) ==
    /\ tpc = "start"
    /\ LET r == [when |-> FireTime(clock, minutes), msg |-> message, id |-> NextId]
       IN /\ reminders' = Insert(reminders, r)
          /\ inserted' = Append(inserted, r)
          /\ tsched' = <<r>>
    /\ tpc' = "scheduled"
    /\ UNCHANGED <<clock, reminder_lock, workerVars, callerVars, utterances,
                   fireEvents, atLock, tres,
                   sessVars>>

\* time passes until one second before the fire time, or until the fire time
T_elapse(t) ==
    /\ tpc = "scheduled"
    /\ t > clock
    /\ clock' = t
    /\ UNCHANGED <<reminders, reminder_lock, workerVars, callerVars, histVars,
                   testVars,
                   sessVars>>

\* pollAndRemoveDue(now) at the current clock value
T_poll ==
    /\ tpc = "scheduled"
    /\ Len(tres) < MaxPolls
    /\ tres' = Append(tres, [now |-> clock, got |-> DueOf(reminders, clock)])
    /\ reminders' = KeepOf(reminders, clock)
    /\ UNCHANGED <<clock, reminder_lock, workerVars, callerVars, histVars,
                   tpc, tsched,
                   sessVars>>

\* A reminder that is pending before the run and due only after the run.
LaterReminder == [when |-> FireTime(MaxStart, MaxContractMinutes) + 1,
                  msg |-> W_task, id |-> 0]

ContractInit ==
    /\ clock \in 0..MaxStart
    /\ reminders \in {<<>>, <<LaterReminder>>}
    /\ mic = TRUE
    /\ budget = MaxIter
    /\ Loaded

ContractNext ==
    \/ \E m \in 1..MaxContractMinutes, msg \in Messages : T_schedule(m, msg)
    \/ /\ tpc = "scheduled"
       /\ \E t \in {tsched[1].when - 1, tsched[1].when} : T_elapse(t)
    \/ T_poll

ContractSpec == ContractInit /\ [][ContractNext]_vars

(***************************************************************************)
(* listen, lines 75-93, and the collaborators behind get_weather and       *)
(* get_top_news.                                                           *)
(***************************************************************************)
\* line 50
DEFAULT_CITY == <<"N", "e", "w", " ", "D", "e", "l", "h", "i", ",", "I", "N">>
\* line 51
WAKE_WORDS == {W_assistant, Sentence(<<W_hey, W_assistant>>),
               Sentence(<<W_ok, W_assistant>>)}
\* lines 281 and 297
ExitPhrases == {W_quit, W_exit, Sentence(<<W_stop, W_assistant>>)}

\* What recognize_google can return, before .lower(): any text, one of
\* white space included.
Heard ==
    {W_assistant,
     W_Quit,
     Sentence(<<W_remind, W_me, W_in, W_0, W_minutes, W_to, W_tea>>),
     Sentence(<<W_remind, W_me, W_in, W_2, W_hours, W_tea>>),
     Sentence(<<W_remind, W_me, W_in, W_ten, W_minutes, W_to, W_tea>>),
     Sentence(<<W_remind, W_me, W_in, W_2, W_hours>>),
     Sentence(<<W_set, W_reminder>>),
     W_tea,
     W_weather,
     Sentence(<<W_weather, W_in>>),
     W_news,
     W_time,
     Sentence(<<W_time, W_date>>),
     W_date,
     W_search,
     Sentence(<<W_search, W_for, W_tea>>),
     Sentence(<<W_search, W_for, W_exit>>),
     W_hi,
     W_thank,
     <<Sp>>}

\* What recognize_google can return to a follow-up question, before .lower().
Replies == {W_0, Sentence(<<W_10, W_minutes>>), W_tea}

\* The outcomes of one call of listen().  Without a microphone it returns ""
\* (lines 77-78).  With one, recognizer.listen (line 82) raises
\* WaitTimeoutError when nobody speaks before the timeout: line 82 is
\* outside the try of lines 83-93, so the exception leaves listen().
\* recognize_google returns a text, returned lower-cased (line 86), or raises
\* UnknownValueError or RequestError, for which listen() returns "".
ListenOutcomes(texts) ==
    IF ~mic THEN {[raised |-> FALSE, text |-> <<>>]}
    ELSE {[raised |-> TRUE, text |-> <<>>], [raised |-> FALSE, text |-> <<>>]}
         \cup {[raised |-> FALSE, text |-> Lower(t)] : t \in texts}

\* get_weather(city), lines 121-135: (None, reason) without an API key or
\* when the request fails, (summary, None) otherwise.
W_key == <<"k", "e", "y">>
W_net == <<"n", "e", "t">>
W_sun == <<"s", "u", "n">>
WeatherOutcomes ==
    {[ok |-> FALSE, text |-> W_key], [ok |-> FALSE, text |-> W_net],
     [ok |-> TRUE, text |-> W_sun]}

\* get_top_news(5), lines 139-152: (None, reason), or (headlines, None) with
\* the titles of the articles returned.
RECURSIVE Titles(_)
Titles(n) == IF n = 0 THEN <<>> ELSE Append(Titles(n - 1), W_news \o Str(n))
NewsOutcomes ==
    {[ok |-> FALSE, text |-> W_key, titles |-> <<>>],
     [ok |-> FALSE, text |-> W_net, titles |-> <<>>]}
    \cup {[ok |-> TRUE, text |-> <<>>, titles |-> Titles(n)] : n \in 0..MaxHeadlines}

\* requests.utils.requote_uri(query): a space becomes %20.
Requote(query) == [i \in 1..Len(query) |-> IF query[i] = Sp THEN "%20" ELSE query[i]]

\* One entry of the iteration's history: what happened, at which listen()
\* ("ambient" for line 273, "command" for lines 279 and 295, "reply" for
\* lines 184, 188 and 244), and the text of a command or of a reply.
Event(ev, site, text) == [ev |-> ev, site |-> site, text |-> text]

\* How a call of listen() ended.
Kind(o) == IF o.raised THEN "raise" ELSE IF o.text = <<>> THEN "empty" ELSE "heard"

(***************************************************************************)
(* handle_command, lines 156-259: the tests in the order of the source.    *)
(***************************************************************************)
\* line 157: text = text.lower().strip()
CommandText(c) == Strip(Lower(c))

\* The first test of handle_command that holds for text.
Branch(text) ==
    CASE text = <<>> -> "empty"
      [] OTHER ->
    IF Contains(text, RemindMeIn) THEN "remind_in"
    ELSE IF StartsWith(text, Sentence(<<W_set, W_reminder>>))
            \/ StartsWith(text, Sentence(<<W_remind, W_me, W_to>>)) THEN "remind_ask"
    ELSE IF Contains(text, W_weather) THEN "weather"
    ELSE IF Contains(text, W_news) \/ Contains(text, W_headlines) THEN "news"
    ELSE IF Contains(text, W_time) THEN "time"
    ELSE IF Contains(text, W_date) THEN "date"
    ELSE IF StartsWith(text, Sentence(<<W_search, W_for>>))
            \/ StartsWith(text, W_google) \/ Contains(text, W_search) THEN "search"
    ELSE IF ContainsAny(text, {W_hello, W_hi, W_hey}) THEN "greeting"
    ELSE IF Contains(text, W_thank) THEN "thanks"
    ELSE "fallback"

\* lines 168-174: the minute count of a match of the regular expression
MinutesOf(m) ==
    IF Contains(m[2], W_hour) THEN IntOf(m[1]) * 60 ELSE IntOf(m[1])

\* line 170: msg = m.group(3) or "your task"
MessageOr(msg) == IF msg = <<>> THEN Sentence(<<W_your, W_task>>) ELSE msg

\* lines 199-207: the city of a weather command
CityOf(text) ==
    LET parts == Split(text)
        at == {i \in 1..Len(parts) : parts[i] = W_in}
    IN IF at = {} THEN DEFAULT_CITY
       ELSE Join(SubSeq(parts, (CHOOSE i \in at : \A j \in at : i <= j) + 1, Len(parts)),
                 <<Sp>>)

\* lines 240-241: the query of a search command
QueryOf(text) ==
    Strip(Remove(Remove(Remove(text, Sentence(<<W_search, W_for>>)), W_google), W_search))

\* handle_command returns, and main_loop goes to the top of `while True`
\* (line 287, or the end of the loop body after line 300).
Return ==
    /\ mpc' = "wake_listen"
    /\ htext' = <<>>
    /\ hloc' = <<>>

\* The main thread is at the start of handle_command with this text.
AtBranch(b) == mpc = "handle" /\ Branch(htext) = b

\* What an action of the main thread leaves alone besides the variables of
\* the main thread.
OthersAlone == UNCHANGED <<storeVars, workerVars, callerVars, inserted, fireEvents,
                           atLock, testVars, mic, mark, budget>>

\* lines 158-160
H_empty ==
    /\ AtBranch("empty")
    /\ utterances' = Spoken(utterances, Say("I didn't catch that. Please repeat.", <<>>))
    /\ Return
    /\ OthersAlone /\ UNCHANGED <<iter, fetches, browser, log>>

\* lines 163-176: the regular expression matches, set_reminder_in is called
\* (its line 113 is part of this step)
H_remind_in ==
    /\ AtBranch("remind_in")
    /\ ReminderMatch(htext) # <<>>
    /\ LET m == ReminderMatch(htext)
       IN S_when(MainCaller, MinutesOf(m), MessageOr(m[3]))
    /\ mpc' = "set_reminder"
    /\ UNCHANGED <<mic, mark, budget, htext, hloc, iter, fetches, browser, log>>

\* Variant of H_remind_malformed: a command the regular expression does not
\* match is answered with a guess, a reminder of one minute.
H_remind_guess ==
    /\ AtBranch("remind_in")
    /\ ReminderMatch(htext) = <<>>
    /\ S_when(MainCaller, 1, MessageOr(<<>>))
    /\ mpc' = "set_reminder"
    /\ UNCHANGED <<mic, mark, budget, htext, hloc, iter, fetches, browser, log>>

\* lines 163-167, 177-179: the regular expression does not match
H_remind_malformed ==
    /\ AtBranch("remind_in")
    /\ ReminderMatch(htext) = <<>>
    /\ utterances' = Spoken(utterances, Say("Please say: remind me in X minutes to do Y.", <<>>))
    /\ Return
    /\ OthersAlone /\ UNCHANGED <<iter, fetches, browser, log>>

\* lines 181-183, up to the listen() of line 184
H_remind_ask ==
    /\ AtBranch("remind_ask")
    /\ utterances' = Spoken(utterances,
            Say("For when should I set the reminder? Say in how many minutes.", <<>>))
    /\ mpc' = "remind_mins"
    /\ OthersAlone /\ UNCHANGED <<htext, hloc, iter, fetches, browser, log>>

\* lines 184-187 and 192-194: reply = listen() is outside the try, so its
\* WaitTimeoutError leaves handle_command and main_loop; int() of the digits
\* of the reply raises ValueError when there is none, which line 192 catches.
H_remind_mins ==
    /\ mpc = "remind_mins"
    /\ \E o \in ListenOutcomes(Replies) :
        /\ log' = Append(log, Event(Kind(o), "reply", o.text))
        /\ IF o.raised
           THEN /\ mpc' = "crashed"
                /\ UNCHANGED <<utterances, htext, hloc>>
           ELSE IF IntRaises(DigitsOf(o.text))
           THEN /\ utterances' = Spoken(utterances,
                        Say("I couldn't parse the time. Reminder cancelled.", <<>>))
                /\ Return
           ELSE /\ utterances' = Spoken(utterances, Say("What should I remind you about?", <<>>))
                /\ hloc' = <<IntOf(DigitsOf(o.text))>>
                /\ mpc' = "remind_msg"
                /\ UNCHANGED htext
    /\ OthersAlone /\ UNCHANGED <<iter, fetches, browser>>

\* lines 188-191: msg = listen() is inside the try, so its WaitTimeoutError
\* is caught by line 192; otherwise set_reminder_in is called (its line 113
\* is part of this step)
H_remind_msg ==
    /\ mpc = "remind_msg"
    /\ \E o \in ListenOutcomes(Replies) :
        /\ log' = Append(log, Event(Kind(o), "reply", o.text))
        /\ IF o.raised
           THEN /\ utterances' = Spoken(utterances,
                        Say("I couldn't parse the time. Reminder cancelled.", <<>>))
                /\ Return
                /\ UNCHANGED <<storeVars, workerVars, callerVars, inserted, fireEvents,
                               atLock, testVars>>
           ELSE /\ S_when(MainCaller, hloc[1], MessageOr(o.text))
                /\ mpc' = "set_reminder"
                /\ hloc' = <<>>
                /\ UNCHANGED htext
    /\ UNCHANGED <<mic, mark, budget, iter, fetches, browser>>

\* set_reminder_in has returned (line 176, or lines 191 and 194)
H_reminder_set ==
    /\ mpc = "set_reminder"
    /\ cpc[MainCaller] = "returned"
    /\ cpc' = [cpc EXCEPT ![MainCaller] = "idle"]
    /\ cargs' = [cargs EXCEPT ![MainCaller] = <<0, <<>>>>]
    /\ cwhen' = [cwhen EXCEPT ![MainCaller] = 0]
    /\ Return
    /\ UNCHANGED <<storeVars, workerVars, histVars, testVars, mic, mark, budget, iter,
                   fetches, browser, log>>

\* lines 197-208, up to the request of get_weather
H_weather ==
    /\ AtBranch("weather")
    /\ hloc' = CityOf(htext)
    /\ fetches' = Append(fetches, [api |-> "weather", arg |-> CityOf(htext)])
    /\ mpc' = "weather_fetch"
    /\ OthersAlone /\ UNCHANGED <<utterances, htext, iter, browser, log>>

\* get_weather returns; lines 209-213
H_weather_done ==
    /\ mpc = "weather_fetch"
    /\ \E r \in WeatherOutcomes :
        utterances' = Spoken(utterances,
            IF r.ok THEN Say("Weather in {city}: {weather_text}", <<hloc, r.text>>)
            ELSE Say("Sorry, I couldn't fetch weather. {err}", <<r.text>>))
    /\ Return
    /\ OthersAlone /\ UNCHANGED <<iter, fetches, browser, log>>

\* lines 216-217, up to the request of get_top_news
H_news ==
    /\ AtBranch("news")
    /\ fetches' = Append(fetches, [api |-> "news", arg |-> Str(5)])
    /\ mpc' = "news_fetch"
    /\ OthersAlone /\ UNCHANGED <<utterances, htext, hloc, iter, browser, log>>

\* get_top_news returns; lines 218-221, and line 225 when there is no headline
H_news_done ==
    /\ mpc = "news_fetch"
    /\ \E r \in NewsOutcomes :
        IF ~r.ok
        THEN /\ utterances' = Spoken(utterances, Say("Sorry, can't fetch news: {err}", <<r.text>>))
             /\ Return
        ELSE /\ utterances' = Spoken(utterances, Say("Here are the top headlines.", <<>>))
             /\ IF r.titles = <<>> THEN Return
                ELSE mpc' = "news_items" /\ hloc' = r.titles /\ UNCHANGED htext
    /\ OthersAlone /\ UNCHANGED <<iter, fetches, browser, log>>

\* lines 222-225: speak(h); time.sleep(0.5), for the next headline
H_news_item ==
    /\ mpc = "news_items"
    /\ utterances' = Spoken(utterances, Say("{h}", <<Head(hloc)>>))
    /\ IF Tail(hloc) = <<>> THEN Return
       ELSE mpc' = "news_items" /\ hloc' = Tail(hloc) /\ UNCHANGED htext
    /\ OthersAlone /\ UNCHANGED <<iter, fetches, browser, log>>

\* lines 228-231; strftime('%I:%M %p') of the clock is kept as the clock value
H_time ==
    /\ AtBranch("time")
    /\ utterances' = Spoken(utterances, Say("The time is {now}", <<Str(clock)>>))
    /\ Return
    /\ OthersAlone /\ UNCHANGED <<iter, fetches, browser, log>>

\* lines 232-235; strftime('%A, %B %d, %Y') of the clock is kept as the clock value
H_date ==
    /\ AtBranch("date")
    /\ utterances' = Spoken(utterances, Say("Today is {today}", <<Str(clock)>>))
    /\ Return
    /\ OthersAlone /\ UNCHANGED <<iter, fetches, browser, log>>

\* Variant of HasQuery: an empty query is searched for as well.
HasQueryAlways(query) == TRUE

\* line 245: if query:
HasQuery(query) == query # <<>>

\* Variant of Search: the browser is opened twice.
SearchTwice(query) ==
    /\ utterances' = Spoken(utterances, Say("Searching for {query} on the web.", <<query>>))
    /\ browser' = browser \o <<Requote(query), Requote(query)>>

\* lines 245-247: the search is announced and the browser opened
Search(query) ==
    /\ utterances' = Spoken(utterances, Say("Searching for {query} on the web.", <<query>>))
    /\ browser' = Append(browser, Requote(query))

\* lines 238-248, up to the listen() of line 244 when the query is empty
H_search ==
    /\ AtBranch("search")
    /\ IF QueryOf(htext) = <<>>
       THEN /\ utterances' = Spoken(utterances, Say("What should I search for?", <<>>))
            /\ mpc' = "search_query"
            /\ UNCHANGED <<htext, hloc, browser>>
       ELSE /\ Search(QueryOf(htext))
            /\ Return
    /\ OthersAlone /\ UNCHANGED <<iter, fetches, log>>

\* lines 244-248: query = listen() is in no try, so its WaitTimeoutError
\* leaves handle_command and main_loop
H_search_query ==
    /\ mpc = "search_query"
    /\ \E o \in ListenOutcomes(Replies) :
        /\ log' = Append(log, Event(Kind(o), "reply", o.text))
        /\ IF o.raised
           THEN /\ mpc' = "crashed"
                /\ UNCHANGED <<utterances, browser, htext, hloc>>
           ELSE IF ~HasQuery(o.text)
           THEN /\ Return
                /\ UNCHANGED <<utterances, browser>>
           ELSE /\ Search(o.text)
                /\ Return
    /\ OthersAlone /\ UNCHANGED <<iter, fetches>>

\* lines 251-253
H_greeting ==
    /\ AtBranch("greeting")
    /\ utterances' = Spoken(utterances, Say("Hello! How can I help you?", <<>>))
    /\ Return
    /\ OthersAlone /\ UNCHANGED <<iter, fetches, browser, log>>

\* lines 254-256
H_thanks ==
    /\ AtBranch("thanks")
    /\ utterances' = Spoken(utterances, Say("You are welcome!", <<>>))
    /\ Return
    /\ OthersAlone /\ UNCHANGED <<iter, fetches, browser, log>>

\* line 259
H_fallback ==
    /\ AtBranch("fallback")
    /\ utterances' = Spoken(utterances,
            Say("Sorry, I don't have a built-in action for that. I can search the web if you like. Say 'search' followed by your query.", <<>>))
    /\ Return
    /\ OthersAlone /\ UNCHANGED <<iter, fetches, browser, log>>

HandleCommand ==
    \/ H_empty \/ H_remind_in \/ H_remind_malformed
    \/ H_remind_ask \/ H_remind_mins \/ H_remind_msg \/ H_reminder_set
    \/ H_weather \/ H_weather_done \/ H_news \/ H_news_done \/ H_news_item
    \/ H_time \/ H_date \/ H_search \/ H_search_query
    \/ H_greeting \/ H_thanks \/ H_fallback

(***************************************************************************)
(* main_loop, lines 263-305.  The locals `heard` and `cmd` live within one *)
(* step: each is read only by the tests that follow its assignment.        *)
(***************************************************************************)
\* Variant of IsWake: whatever the wake-word listen returns counts as a wake
\* word.
IsWakeAlways(heard) == TRUE

\* line 277
IsWake(heard) == heard # <<>> /\ ContainsAny(heard, WAKE_WORDS)

\* lines 281 and 297
IsExit(cmd) == ContainsAny(cmd, ExitPhrases)

\* lines 283 and 299: after `break` main_loop has ended; without it the loop
\* would go on with its next iteration
AfterExitContinue == "wake_listen"
AfterExit == "stopped"

\* lines 264-265
M_start ==
    /\ mpc = "start"
    /\ utterances' = Spoken(utterances,
            Say("Assistant is starting. Say \"assistant\" or press Enter to speak.", <<>>))
    /\ mpc' = "wake_listen"
    /\ OthersAlone /\ UNCHANGED <<htext, hloc, iter, fetches, browser, log>>

\* lines 266-278: the wake-word listen hears a wake word
M_wake ==
    /\ mpc = "wake_listen"
    /\ iter < budget
    /\ iter' = iter + 1
    /\ \E o \in ListenOutcomes(Heard) :
        /\ ~o.raised /\ IsWake(o.text)
        /\ log' = <<Event(Kind(o), "ambient", <<>>)>>
    /\ utterances' = Spoken(utterances, Say("Yes?", <<>>))
    /\ mpc' = "cmd_listen"
    /\ OthersAlone /\ UNCHANGED <<htext, hloc, fetches, browser>>

\* lines 266-277 and 289-293, up to input(): the wake-word listen hears no
\* wake word; whatever it raises is caught by line 274 and leaves heard = ""
M_no_wake ==
    /\ mpc = "wake_listen"
    /\ iter < budget
    /\ iter' = iter + 1
    /\ \E o \in ListenOutcomes(Heard) :
        /\ ~IsWake(IF o.raised THEN <<>> ELSE o.text)
        /\ log' = <<Event(Kind(o), "ambient", <<>>)>>
    /\ mpc' = "input"
    /\ OthersAlone /\ UNCHANGED <<utterances, htext, hloc, fetches, browser>>

\* lines 293-294: input() returns
M_enter ==
    /\ mpc = "input"
    /\ utterances' = Spoken(utterances, Say("Listening for your command.", <<>>))
    /\ log' = Append(log, Event("enter", "", <<>>))
    /\ mpc' = "cmd_listen"
    /\ OthersAlone /\ UNCHANGED <<htext, hloc, iter, fetches, browser>>

\* lines 293, 303-305: input() raises KeyboardInterrupt
M_interrupt ==
    /\ mpc = "input"
    /\ utterances' = Spoken(utterances, Say("Shutting down. Bye.", <<>>))
    /\ log' = Append(log, Event("interrupt", "", <<>>))
    /\ mpc' = "stopped"
    /\ OthersAlone /\ UNCHANGED <<htext, hloc, iter, fetches, browser>>

\* line 279 or 295: the command listen raises.  Line 279 is in no try, line
\* 295 in one that catches KeyboardInterrupt only: the WaitTimeoutError leaves
\* main_loop.
M_cmd_timeout ==
    /\ mpc = "cmd_listen"
    /\ \E o \in ListenOutcomes(Heard) :
        /\ o.raised
        /\ log' = Append(log, Event(Kind(o), "command", o.text))
    /\ mpc' = "crashed"
    /\ OthersAlone /\ UNCHANGED <<utterances, htext, hloc, iter, fetches, browser>>

\* lines 279-280 and 285-287, or 295-296 and 301-302: nothing was heard
M_not_heard ==
    /\ mpc = "cmd_listen"
    /\ \E o \in ListenOutcomes(Heard) :
        /\ ~o.raised /\ o.text = <<>>
        /\ log' = log \o <<Event(Kind(o), "command", o.text), Event("notice", "", <<>>)>>
    /\ utterances' = Spoken(utterances, Say("I did not hear anything.", <<>>))
    /\ mpc' = "wake_listen"
    /\ OthersAlone /\ UNCHANGED <<htext, hloc, iter, fetches, browser>>

\* lines 279-283, or 295-299: an exit phrase
M_exit ==
    /\ mpc = "cmd_listen"
    /\ \E o \in ListenOutcomes(Heard) :
        /\ ~o.raised /\ o.text # <<>> /\ IsExit(o.text)
        /\ log' = log \o <<Event(Kind(o), "command", o.text), Event("exit", "", o.text)>>
    /\ utterances' = Spoken(utterances, Say("Goodbye!", <<>>))
    /\ mpc' = AfterExit
    /\ OthersAlone /\ UNCHANGED <<htext, hloc, iter, fetches, browser>>

\* lines 279-281 and 284, or 295-297 and 300: handle_command(cmd) is called
\* (its line 157 is part of this step)
M_handle ==
    /\ mpc = "cmd_listen"
    /\ \E o \in ListenOutcomes(Heard) :
        /\ ~o.raised /\ o.text # <<>> /\ ~IsExit(o.text)
        /\ log' = log \o <<Event(Kind(o), "command", o.text), Event("dispatch", "", o.text)>>
        /\ htext' = CommandText(o.text)
    /\ mark' = Effects
    /\ mpc' = "handle"
    /\ UNCHANGED <<storeVars, workerVars, callerVars, histVars, testVars, mic, budget,
                   hloc, iter, fetches, browser>>

MainLoop ==
    \/ M_start \/ M_wake \/ M_no_wake \/ M_enter \/ M_interrupt
    \/ M_cmd_timeout \/ M_not_heard \/ M_exit \/ M_handle

\* The main thread inside set_reminder_in, lines 114-117.
MainCallerRun == S_lock(MainCaller) \/ S_append(MainCaller) \/ S_speak(MainCaller)

SessionInit ==
    /\ clock = 0
    /\ reminders = <<>>
    /\ mic \in BOOLEAN
    /\ budget = MaxIter
    /\ Loaded

SessionNext == MainLoop \/ HandleCommand \/ MainCallerRun

SessionSpec == SessionInit /\ [][SessionNext]_vars

(***************************************************************************)
(* The whole program: the main thread in main_loop (line 307) next to the  *)
(* daemon thread of reminder_worker (line 110).                            *)
(***************************************************************************)
SystemInit ==
    /\ clock = 0
    /\ reminders = <<>>
    /\ mic \in BOOLEAN
    /\ budget = MaxSystemIter
    /\ Loaded

SystemNext == MainLoop \/ HandleCommand \/ MainCallerRun \/ Worker \/ Tick

\* The worker thread and a thread inside set_reminder_in run on: neither
\* waits for anything but the lock.  Nothing is assumed of main_loop and
\* handle_command, which wait for the microphone, the keyboard and the
\* network.
SystemSpec ==
    /\ SystemInit /\ [][SystemNext]_vars
    /\ WF_vars(Worker)
    /\ WF_vars(MainCallerRun)

(***************************************************************************)
(* Properties.                                                             *)
(***************************************************************************)
Inserted(id) == id \in 1..Len(inserted)
Pending(id) == id \in Ids(reminders)
FireCount(id) == Cardinality({i \in 1..Len(fireEvents) : fireEvents[i].id = id})
Fired(id) == FireCount(id) >= 1
\* Taken out of `reminders` by the poll in progress, its speak call to come.
Awaiting(id) == wpc = "for" /\ \E i \in wi..Len(due) : due[i].id = id
WorkerAlive == wpc \in {"now", "lock", "due", "remove", "for"}
PollsAt(t) == {i \in 1..Len(tres) : tres[i].now = t}

\* C1: after schedule(m, msg) made a reminder with fire time fireAt, a poll
\* at a time before fireAt (fireAt - 1s among them) returns no reminder, the
\* first poll at fireAt returns exactly that reminder {fireAt, msg}, and a
\* further poll at the same time returns nothing.
C1_ScheduleThenPoll ==
    tpc = "scheduled" =>
        \A i \in 1..Len(tres) :
            LET fireAt == tsched[1].when
                first == \A j \in 1..(i - 1) : tres[j].now # fireAt
            IN /\ tres[i].now < fireAt => tres[i].got = <<>>
               /\ tres[i].now = fireAt /\ first => tres[i].got = tsched
               /\ tres[i].now = fireAt /\ ~first => tres[i].got = <<>>

\* C1, witness: polls at fireAt - 1s, at fireAt and again at fireAt were made.
C1_Witness ==
    /\ tpc = "scheduled"
    /\ Len(tres) = 3
    /\ tres[1].now = tsched[1].when - 1
    /\ tres[2].now = tsched[1].when
    /\ tres[3].now = tsched[1].when
    /\ Len(tres[2].got) = 1

\* C2, as stated: every scheduled reminder has at most one fire event, is in
\* the pending set as long as it has none, and is not in it once it has one.
C2_PendingUntilFired ==
    \A id \in 1..NCallers : Inserted(id) =>
        /\ FireCount(id) <= 1
        /\ ~Fired(id) => Pending(id)
        /\ Fired(id) => ~Pending(id)

\* C2, amended: every scheduled reminder has at most one fire event; it is in
\* the pending set until the poll that finds it due removes it, from then
\* until its fire event it is only in that poll's due list, and it is never
\* in the pending set again.
C2_RemovedThenFiredOnce ==
    /\ \A id \in 1..NCallers : Inserted(id) =>
        /\ FireCount(id) <= 1
        /\ Pending(id) \/ Awaiting(id) \/ Fired(id)
        /\ ~(Pending(id) /\ Awaiting(id))
        /\ ~(Pending(id) /\ Fired(id))
        /\ ~(Awaiting(id) /\ Fired(id))
    /\ \A i \in 1..Len(fireEvents) : Inserted(fireEvents[i].id)

\* C2, witness: one reminder has had its fire event while another one, removed
\* by the same poll, still awaits its own.
C2_Witness ==
    \E a, b \in 1..NCallers : Fired(a) /\ Awaiting(b) /\ ~Pending(a) /\ ~Pending(b)

\* C3: once all N concurrent calls of schedule have returned, and while no
\* reminder is due yet, the pending list holds exactly N reminders: one for
\* each call, none twice.
AllReturned == \A c \in Callers : cpc[c] = "returned"
NoneDueYet == \A c \in Callers : clock < cwhen[c]
EntriesLike(c) ==
    {i \in 1..Len(reminders) :
        reminders[i].when = cwhen[c] /\ reminders[i].msg = cargs[c][2]}
CallsLike(c) ==
    {d \in Callers : cwhen[d] = cwhen[c] /\ cargs[d][2] = cargs[c][2]}
C3_NoLostInsert ==
    AllReturned /\ NoneDueYet =>
        /\ Len(reminders) = NCallers
        /\ Cardinality(Ids(reminders)) = NCallers
        /\ \A c \in Callers : Cardinality(EntriesLike(c)) = Cardinality(CallsLike(c))

\* C3, witness: all callers have returned, two of them were inside
\* set_reminder_in with the same fire time, and nothing is due yet.
C3_Witness ==
    /\ AllReturned
    /\ NoneDueYet
    /\ \E c, d \in Callers : c # d /\ cwhen[c] = cwhen[d]

\* C4: every reminder inserted by schedule whose fire time the clock reaches
\* is eventually fired; a fire event is emitted only by a poll whose now is
\* at or after the fire time; the ticker never terminates.
C4_EventuallyFired ==
    /\ \A id \in 1..NCallers :
        [](Inserted(id) /\ inserted[id].when <= MaxTime => <>Fired(id))
    /\ [](\A i \in 1..Len(fireEvents) : fireEvents[i].now >= fireEvents[i].when)
    /\ []WorkerAlive

\* C4, witness: a reminder was fired by a poll at its fire time, and that poll
\* left a reminder with a later fire time pending.
C4_Witness ==
    \E i \in 1..Len(fireEvents), k \in 1..Len(reminders) :
        /\ fireEvents[i].now >= fireEvents[i].when
        /\ reminders[k].id < fireEvents[i].id
        /\ reminders[k].when > fireEvents[i].now

\* C5: when the engine fails on the utterance of one due reminder, the ticker
\* goes on: the other reminders of the same poll get their fire events, and
\* so does every reminder that becomes due while the clock runs.
SomeFailed == \E i \in 1..Len(fireEvents) : fireEvents[i].outcome = "failed"
C5_FailureIsolated ==
    /\ [](SomeFailed => WorkerAlive)
    /\ [](SomeFailed /\ wpc = "for" /\ wi > Len(due) =>
            \A i \in 1..Len(due) : Fired(due[i].id))
    /\ \A id \in 1..NCallers :
        [](SomeFailed /\ Inserted(id) /\ inserted[id].when <= MaxTime => <>Fired(id))

\* C5, witness: the utterance of one reminder failed and the next reminder of
\* the same poll was fired after it.
C5_Witness ==
    /\ Len(fireEvents) >= 2
    /\ fireEvents[1].outcome = "failed"
    /\ fireEvents[2].now = fireEvents[1].now

\* C6: a poll returns exactly the reminders with fireAt <= now that were
\* pending when it took the lock and leaves exactly those with fireAt > now;
\* a reminder inserted meanwhile is in that partition or pending afterwards.
PollIsPartition ==
    wpc = "remove" /\ wpc' = "for" =>
        /\ due = DueOf(atLock, wnow)
        /\ reminders' = KeepOf(atLock, wnow)
NeverLost ==
    \A id \in 1..NCallers : Inserted(id) =>
        \/ Pending(id)
        \/ wpc \in {"remove", "for"} /\ id \in Ids(due)
        \/ Fired(id)
C6_PollAtomic == [][PollIsPartition]_vars /\ []NeverLost

\* C6, witness: the worker holds the lock in the middle of a partition that
\* found a reminder due, while a caller waits for the lock with a reminder
\* that is due as well.
C6_Witness ==
    /\ wpc = "remove"
    /\ due # <<>>
    /\ \E c \in Callers : cpc[c] = "lock" /\ cwhen[c] <= wnow


(***************************************************************************)
(* Properties of the session: main_loop, listen and handle_command.        *)
(***************************************************************************)
\* main_loop is over: by `break`, or by an exception that left it.
Ended == mpc \in {"stopped", "crashed"}

\* The command listen of entry i of the history heard a text with an exit
\* phrase in it.
ExitHeard(i) ==
    /\ log[i].site = "command"
    /\ log[i].ev = "heard"
    /\ \/ Contains(log[i].text, W_quit)
       \/ Contains(log[i].text, W_exit)
       \/ Contains(log[i].text, Sentence(<<W_stop, W_assistant>>))

\* C7: set_reminder_in is never called with a minute count below 1: a
\* duration of 0 in the command or in the follow-up reply is rejected before
\* the call, so every reminder is created with minutes >= 1.
C7_PositiveMinutes ==
    cpc[MainCaller] # "idle" => cargs[MainCaller][1] >= 1

\* C8: once a command with an exit phrase is heard, main_loop is in its
\* state Stopped, the exit is the last thing that happened, and from Stopped
\* the session takes no further step: no listen, no dispatch.
C8_ExitStops ==
    /\ [](\A i \in 1..Len(log) :
            ExitHeard(i) => /\ mpc = "stopped"
                            /\ i + 1 = Len(log)
                            /\ log[i + 1].ev = "exit")
    /\ [][mpc = "stopped" => UNCHANGED sessVars]_vars

\* C8, witness: an exit phrase after the wake word, in an iteration that is not the last
\* one the bound allows.
C8_Witness ==
    /\ mpc = "stopped"
    /\ iter < budget
    /\ Len(log) = 3
    /\ ExitHeard(2)
    /\ log[3].ev = "exit"

\* C9: main_loop ends only by an exit phrase: whenever it is over, the last
\* thing that happened is the exit, not a listen timeout nor a keyboard
\* interrupt at the manual trigger.
C9_StoppedOnlyByExit ==
    Ended => log[Len(log)].ev = "exit"

\* C10: a listen that times out yields empty text and main_loop goes on with
\* its next iteration, so no listen ends main_loop; and the notice "I did
\* not hear anything." follows an empty command listen only, never the
\* wake-word listen.
C10_TimeoutYieldsEmpty ==
    /\ mpc # "crashed"
    /\ \A i \in 1..Len(log) :
        log[i].ev = "raise" => log[i].site = "ambient"
    /\ \A i \in 1..Len(log) :
        log[i].ev = "notice" => /\ i > 1
                                /\ log[i - 1].site = "command"
                                /\ log[i - 1].ev = "empty"

(***************************************************************************)
(* Properties of the dispatch: which rule answers a command.               *)
(***************************************************************************)
\* The command listen of entry i of the history heard a text.
CommandHeard(i) == log[i].site = "command" /\ log[i].ev = "heard"

\* The earliest rule a normalised command text satisfies, in the order
\* reminder with duration, interactive reminder, weather, news, time, date,
\* search, small talk, exit, fallback.
EarliestRule(t) ==
    IF t = <<>> THEN "empty"
    ELSE IF Contains(t, Sentence(<<W_remind, W_me, W_in>>)) THEN "remind_in"
    ELSE IF StartsWith(t, Sentence(<<W_set, W_reminder>>))
            \/ StartsWith(t, Sentence(<<W_remind, W_me, W_to>>)) THEN "remind_ask"
    ELSE IF Contains(t, W_weather) THEN "weather"
    ELSE IF Contains(t, W_news) \/ Contains(t, W_headlines) THEN "news"
    ELSE IF Contains(t, W_time) THEN "time"
    ELSE IF Contains(t, W_date) THEN "date"
    ELSE IF Contains(t, W_search) \/ StartsWith(t, W_google) THEN "search"
    ELSE IF Contains(t, W_hello) \/ Contains(t, W_hi) \/ Contains(t, W_hey) THEN "greeting"
    ELSE IF Contains(t, W_thank) THEN "thanks"
    ELSE IF Contains(t, W_quit) \/ Contains(t, W_exit)
            \/ Contains(t, Sentence(<<W_stop, W_assistant>>)) THEN "exit"
    ELSE "fallback"

\* C11: the action taken for a command is that of the earliest rule its text
\* satisfies in the order reminder with duration, interactive reminder,
\* weather, news, time, date, search, small talk, exit, fallback: the
\* session exits exactly when that rule is exit, and handle_command takes
\* the branch of that rule otherwise.
C11_EarliestRuleWins ==
    /\ \A i \in 1..Len(log) :
        CommandHeard(i) =>
            (log[i + 1].ev = "exit"
                <=> EarliestRule(Strip(Lower(log[i].text))) = "exit")
    /\ mpc = "handle" => Branch(htext) = EarliestRule(htext)

(***************************************************************************)
(* Properties of the reminder commands.                                    *)
(***************************************************************************)
\* A token of digits only.
IsNumber(tok) == tok # <<>> /\ \A k \in 1..Len(tok) : tok[k] \in Digits

\* A normalised text of the form "remind me in N unit", with or without
\* "[to] message" after it.
DurationForm(t) ==
    LET toks == Split(t)
    IN /\ Len(toks) >= 5
       /\ SubSeq(toks, 1, 3) = <<W_remind, W_me, W_in>>
       /\ IsNumber(toks[4])
       /\ toks[5] \in {W_minute, W_minutes, W_hour, W_hours}

\* The minute count such a text asks for: N, or N * 60 for hours.
DurationMinutes(t) ==
    LET toks == Split(t)
    IN IF toks[5] \in {W_hour, W_hours} THEN IntOf(toks[4]) * 60 ELSE IntOf(toks[4])

\* The message such a text gives, or "your task" when there is none.
DurationMessage(t) ==
    LET toks == Split(t)
        rest == SubSeq(toks, 6, Len(toks))
        said == IF rest # <<>> /\ rest[1] = W_to THEN Tail(rest) ELSE rest
    IN IF said = <<>> THEN Sentence(<<W_your, W_task>>) ELSE Sentence(said)

\* The dispatch of entry i of the history is over and has made exactly one
\* call set_reminder_in(minutes, message).
Scheduled(minutes, message) ==
    \/ /\ mpc = "set_reminder"
       /\ cargs[MainCaller] = <<minutes, message>>
    \/ /\ mpc = "wake_listen"
       /\ Len(inserted) = mark.inserted + 1
       /\ inserted[Len(inserted)].msg = message
       /\ inserted[Len(inserted)].when = FireTime(clock, minutes)

\* C12: a command "remind me in N (minute|minutes|hour|hours)", with or
\* without "[to] message" after it, schedules a reminder of N minutes, or of
\* N * 60 minutes for hours, with the message given or "your task".
C12_DurationScheduled ==
    \A i \in 1..Len(log) :
        (log[i].ev = "dispatch" /\ DurationForm(Strip(Lower(log[i].text)))) =>
            \/ mpc = "handle"
            \/ Scheduled(DurationMinutes(Strip(Lower(log[i].text))),
                         DurationMessage(Strip(Lower(log[i].text))))

\* A normalised text with "remind me in" in it and nowhere a duration "N
\* unit" after these words.
MalformedFrame(t) ==
    /\ Contains(t, Sentence(<<W_remind, W_me, W_in>>))
    /\ \A k \in 1..Len(t) : ~DurationForm(From(t, k))

\* rs is the start of rs2.
IsPrefix(rs, rs2) == Len(rs) <= Len(rs2) /\ SubSeq(rs2, 1, Len(rs)) = rs

UsageHint == Say("Please say: remind me in X minutes to do Y.", <<>>)

\* The dispatch of a malformed reminder command is over: the hint has been
\* spoken and nothing was inserted.
HintOnly ==
    \A i \in 1..Len(log) :
        (log[i].ev = "dispatch" /\ MalformedFrame(Strip(Lower(log[i].text)))) =>
            \/ mpc = "handle"
            \/ /\ mpc = "wake_listen"
               /\ BagIn(UsageHint, utterances)
               /\ Len(inserted) = mark.inserted
               /\ cpc[MainCaller] = "idle"

\* C13: a command with "remind me in" in it that gives no duration "N unit"
\* is answered with the usage hint and inserts nothing; and no step of the
\* session removes or alters a reminder that is pending: the list only grows
\* at its end.
C13_HintAndOnlyAdds ==
    /\ []HintOnly
    /\ [][IsPrefix(reminders, reminders')]_vars

\* C13, witness: a malformed reminder command was answered in the second
\* iteration while the reminder of the first one is pending.
C13_Witness ==
    /\ mpc = "wake_listen"
    /\ iter = 2
    /\ reminders # <<>>
    /\ \E i \in 1..Len(log) :
        log[i].ev = "dispatch" /\ MalformedFrame(Strip(Lower(log[i].text)))

\* A normalised text that opens the two-step reminder dialog.
OpensDialog(t) ==
    /\ ~Contains(t, Sentence(<<W_remind, W_me, W_in>>))
    /\ \/ StartsWith(t, Sentence(<<W_set, W_reminder>>))
       \/ StartsWith(t, Sentence(<<W_remind, W_me, W_to>>))

CancelNotice == Say("I couldn't parse the time. Reminder cancelled.", <<>>)

\* C14: in the two-step reminder dialog, a follow-up listen that returns
\* empty text, be it the one for the minute count or the one for the
\* message, cancels the dialog: the cancellation notice is spoken and no
\* reminder is inserted.
C14_EmptyReplyCancels ==
    \A i \in 1..Len(log) : \A j \in 1..Len(log) :
        (/\ log[i].ev = "dispatch" /\ OpensDialog(Strip(Lower(log[i].text)))
         /\ log[j].site = "reply" /\ log[j].ev = "empty") =>
            /\ mpc = "wake_listen"
            /\ BagIn(CancelNotice, utterances)
            /\ Len(inserted) = mark.inserted
            /\ cpc[MainCaller] = "idle"

(***************************************************************************)
(* Properties of the whole program: the lock between the two threads.      *)
(***************************************************************************)
\* The threads that can hold the lock.
Holders == {WorkerThread} \cup {CallerThread(c) : c \in {MainCaller} \cup Callers}

\* C15: whoever holds the reminder lock is at the partition of the list
\* (lines 103-104) or at the append (line 115), and so at no speak, listen,
\* sleep or fetch: the worker is not at its for loop or its sleep, a caller
\* is not at its confirmation, and the main thread holds the lock only
\* inside set_reminder_in.
C15_LockOnlyAroundListUpdate ==
    /\ reminder_lock \in {NoThread} \cup Holders
    /\ reminder_lock = WorkerThread => wpc \in {"due", "remove"}
    /\ wpc \in {"due", "remove"} => reminder_lock = WorkerThread
    /\ \A c \in {MainCaller} \cup Callers :
        /\ reminder_lock = CallerThread(c) => cpc[c] = "append"
        /\ cpc[c] = "append" => reminder_lock = CallerThread(c)
    /\ reminder_lock = CallerThread(MainCaller) => mpc = "set_reminder"

\* C15, witness: the worker holds the lock for its partition while the main
\* thread, inside set_reminder_in, waits for it.
C15_Witness ==
    /\ reminder_lock = WorkerThread
    /\ wpc = "remove"
    /\ cpc[MainCaller] = "lock"

\* Where the main thread waits for the microphone, the keyboard or the
\* network.
Blocked == {"wake_listen", "input", "cmd_listen", "remind_mins", "remind_msg",
            "weather_fetch", "news_fetch", "search_query"}

\* C16: the worker gets the lock whenever it has come to ask for it,
\* whatever the main thread does meanwhile; and when the main thread waits
\* for ever at one place, the worker goes on taking the lock again and again.
C16_WorkerAcquires ==
    /\ (wpc = "lock") ~> (reminder_lock = WorkerThread)
    /\ \A s \in Blocked :
        <>[](mpc = s) => []<>(reminder_lock = WorkerThread)

\* C16, witness: the worker asks for the lock while the main thread holds
\* it for an append.
C16_Witness ==
    /\ wpc = "lock"
    /\ reminder_lock = CallerThread(MainCaller)

(***************************************************************************)
(* Properties of one dispatch: its side effects.                           *)
(***************************************************************************)
\* The follow-up listens of this iteration.
ReplyListens == {j \in 1..Len(log) : log[j].site = "reply"}

\* The command dispatched in this iteration is one that asks back: the
\* two-step reminder dialog, or a search without a query.
AsksBack ==
    \E i \in 1..Len(log) :
        /\ log[i].ev = "dispatch"
        /\ LET t == Strip(Lower(log[i].text))
           IN \/ OpensDialog(t)
              \/ EarliestRule(t) = "search" /\ QueryOf(t) = <<>>

\* C17: since handle_command was last called there has been at most one
\* insertion into the reminder list, at most one fetch and at most one
\* browser launch, and a follow-up listen only in the two-step reminder
\* dialog or after a search command without a query.
C17_EffectsPerDispatch ==
    /\ Len(inserted) <= mark.inserted + 1
    /\ Len(fetches) <= mark.fetches + 1
    /\ Len(browser) <= mark.browser + 1
    /\ ReplyListens # {} => AsksBack

\* C17, witness: the second dispatch made its insertion after two follow-up
\* listens, the first dispatch having made one before it.
C17_Witness ==
    /\ mark.inserted = 1
    /\ Len(inserted) = 2
    /\ Cardinality(ReplyListens) = 2

\* C18: get_weather is never called with an empty city: a weather command
\* without a token "in", or with "in" as its last token, is answered for
\* the default city.
C18_CityNeverEmpty ==
    /\ \A k \in 1..Len(fetches) :
        fetches[k].api = "weather" => fetches[k].arg # <<>>
    /\ mpc = "weather_fetch" =>
        LET toks == Split(htext)
        IN (\A k \in 1..Len(toks) : toks[k] = W_in => k = Len(toks))
              => fetches[Len(fetches)].arg = DEFAULT_CITY

\* The search command dispatched in this iteration, normalised.
SearchTexts ==
    {Strip(Lower(log[i].text)) : i \in {j \in 1..Len(log) :
        log[j].ev = "dispatch" /\ EarliestRule(Strip(Lower(log[j].text))) = "search"}}

\* What is left of a search command without "search for", "google" and
\* "search".
Wanted(t) == Strip(Remove(Remove(Remove(t, Sentence(<<W_search, W_for>>)), W_google), W_search))

\* C19: the browser is opened with a non-empty query only.  A search command
\* that leaves a query is followed by no listen and one launch with that
\* query; one that leaves none is followed by exactly one listen, and by one
\* launch with the reply, or by none when the reply is empty.
C19_SearchQuery ==
    /\ \A k \in 1..Len(browser) : browser[k] # <<>>
    /\ \A t \in SearchTexts :
        IF Wanted(t) # <<>>
        THEN /\ ReplyListens = {}
             /\ mpc = "wake_listen" =>
                   /\ Len(browser) = mark.browser + 1
                   /\ browser[Len(browser)] = Requote(Wanted(t))
        ELSE /\ Cardinality(ReplyListens) <= 1
             /\ mpc = "wake_listen" =>
                   /\ Cardinality(ReplyListens) = 1
                   /\ \A j \in ReplyListens :
                        IF log[j].text = <<>>
                        THEN Len(browser) = mark.browser
                        ELSE /\ Len(browser) = mark.browser + 1
                             /\ browser[Len(browser)] = Requote(log[j].text)

\* C19, witness: a search command without a query was answered with
\* nothing, and the browser was not opened.
C19_Witness ==
    /\ mpc = "wake_listen"
    /\ \E t \in SearchTexts : Wanted(t) = <<>>
    /\ \E j \in ReplyListens : log[j].ev = "empty"
    /\ browser = <<>>

(***************************************************************************)
(* Properties of the session loop: what is taken for a command.            *)
(***************************************************************************)
\* C20: a dispatch or an exit is made with the text of the command listen
\* just before it, and that listen follows a wake-word listen that heard
\* something, or the Enter key; the text of the wake-word listen itself is
\* never passed on; an iteration dispatches at most once.
C20_OnlyCommandListenDispatched ==
    /\ \A i \in 1..Len(log) :
        log[i].ev \in {"dispatch", "exit"} =>
            /\ i >= 3
            /\ CommandHeard(i - 1)
            /\ log[i].text = log[i - 1].text
            /\ \/ log[i - 2].ev = "enter"
               \/ i = 3 /\ log[1].site = "ambient" /\ log[1].ev = "heard"
    /\ \A i \in 1..Len(log) : log[i].site = "ambient" <=> i = 1
    /\ Cardinality({i \in 1..Len(log) : log[i].ev \in {"dispatch", "exit"}}) <= 1
    /\ mpc = "handle" =>
        /\ log[Len(log)].ev = "dispatch"
        /\ htext = Strip(Lower(log[Len(log)].text))

\* C20, witness: the wake-word listen heard a text without a wake word, and
\* the command typed for with Enter is dispatched in its place.
C20_Witness ==
    /\ mpc = "handle"
    /\ Len(log) = 4
    /\ log[1].ev = "heard"
    /\ log[2].ev = "enter"

====
